---------------------------- MODULE Spec2Model ----------------------------
(***************************************************************************)
(* A model of the KeyvHana storage adapter (src/src/index.ts): the         *)
(* constructor-triggered initialisation, the readiness gate in front of    *)
(* every statement, the CRUD and batch operations, the keyset-paginated    *)
(* iterator and disconnect, over a two-column table of rows (ID, VALUE).   *)
(*                                                                         *)
(* Strings that the code inspects character by character (ids, namespaces, *)
(* LIKE patterns) are sequences of one-character strings; stored values    *)
(* are opaque and are TLA+ strings.                                        *)
(***************************************************************************)
EXTENDS Integers, Sequences, FiniteSets, TLC

(***************************************************************************)
(* Bounds of the model.                                                    *)
(***************************************************************************)
\* longest key list / entry list handed to a batch operation
MaxKeys == 2

(***************************************************************************)
(* Input domains.                                                          *)
(***************************************************************************)
\* composite ids "<namespace>:<key>" that may occur in the table
IdAK == <<"a", ":", "k">>
IdABK == <<"a", ":", "b", ":", "k">>
IdBK == <<"b", ":", "k">>
IdUK == <<"_", ":", "k">>
Ids == {IdAK, IdABK, IdBK, IdUK}

\* stored values (the empty string is a value, and is falsy in JavaScript)
Values == {"", "v"}

\* JavaScript undefined: the "not found" result of get / getMany
Undefined == "<undefined>"

\* this.namespace / the iterator's argument; <<>> stands for undefined
\* (and for '', which the code treats the same way: both are falsy).
\* "a:b" is a namespace whose ids also begin with "a:".
NoNamespace == <<>>
Namespaces == {NoNamespace, <<"a">>, <<"b">>, <<"_">>, <<"a", ":", "b">>}

(***************************************************************************)
(* Strings.                                                                *)
(***************************************************************************)
\* code point of a character (HANA compares NVARCHAR values by code point)
Ord(c) ==
    CASE c = "%"  -> 37
      [] c = ":"  -> 58
      [] c = "\\" -> 92
      [] c = "_"  -> 95
      [] c = "a"  -> 97
      [] c = "b"  -> 98
      [] c = "k"  -> 107

\* s < t in the order of ORDER BY "ID" and of "ID" > ?
RECURSIVE StrLess(_, _)
StrLess(s, t) ==
    IF t = <<>> THEN FALSE
    ELSE IF s = <<>> THEN TRUE
    ELSE IF Head(s) = Head(t) THEN StrLess(Tail(s), Tail(t))
    ELSE Ord(Head(s)) < Ord(Head(t))

\* EscapeLike with the class [%_]: a backslash of the namespace is left bare
RECURSIVE EscapeLikeNoBackslash(_)
EscapeLikeNoBackslash(s) ==
    IF s = <<>> THEN <<>>
    ELSE IF Head(s) \in {"%", "_"}
         THEN <<"\\", Head(s)>> \o EscapeLikeNoBackslash(Tail(s))
         ELSE <<Head(s)>> \o EscapeLikeNoBackslash(Tail(s))

\* namespace.replace(/[%_\\]/g, '\\$&'): every %, _ and \ gets a \ in front
RECURSIVE EscapeLike(_)
EscapeLike(s) ==
    IF s = <<>> THEN <<>>
    ELSE IF Head(s) \in {"%", "_", "\\"}
         THEN <<"\\", Head(s)>> \o EscapeLike(Tail(s))
         ELSE <<Head(s)>> \o EscapeLike(Tail(s))

\* ClearPattern with the namespace embedded unescaped
ClearPatternUnescaped(ns) ==
    IF ns # <<>> THEN ns \o <<":", "%">> ELSE <<"%">>

\* the pattern of clear(): `${escaped namespace}:%`, or '%' without namespace
ClearPattern(ns) ==
    IF ns # <<>> THEN EscapeLike(ns) \o <<":", "%">> ELSE <<"%">>

\* IteratorPattern with the namespace embedded unescaped
IteratorPatternUnescaped(ns) ==
    LET prefix == IF ns # <<>> THEN ns \o <<":">> ELSE <<>>
    IN  prefix \o <<"%">>

\* the pattern of iterator(namespace): `${escapedNamespace}%`
IteratorPattern(ns) ==
    LET escapedNamespace == IF ns # <<>> THEN EscapeLike(ns) \o <<":">> ELSE <<>>
    IN  escapedNamespace \o <<"%">>

\* s LIKE pat ESCAPE '\': % matches any run of characters, _ any one
\* character, \c the character c itself
RECURSIVE Like(_, _)
Like(s, pat) ==
    IF pat = <<>> THEN s = <<>>
    ELSE IF Head(pat) = "\\"
         THEN /\ Len(pat) >= 2
              /\ s # <<>>
              /\ Head(s) = pat[2]
              /\ Like(Tail(s), Tail(Tail(pat)))
    ELSE IF Head(pat) = "%"
         THEN \/ Like(s, Tail(pat))
              \/ (s # <<>> /\ Like(Tail(s), pat))
    ELSE IF Head(pat) = "_"
         THEN s # <<>> /\ Like(Tail(s), Tail(pat))
    ELSE s # <<>> /\ Head(s) = Head(pat) /\ Like(Tail(s), Tail(pat))

(***************************************************************************)
(* The table: a set of rows [ID, VALUE]; "ID" is the primary key.          *)
(***************************************************************************)
Row(id, value) == [ID |-> id, VALUE |-> value]

\* the rows of a result set as an array, ordered by ID
RECURSIVE OrderById(_)
OrderById(rows) ==
    IF rows = {} THEN <<>>
    ELSE LET first == CHOOSE r \in rows : \A q \in rows : ~StrLess(q.ID, r.ID)
         IN  <<first>> \o OrderById(rows \ {first})

\* the elements of a sequence
Range(seq) == {seq[i] : i \in 1..Len(seq)}

\* SELECT "VALUE" FROM t WHERE "ID" = ?
SelectWhereId(t, key) == OrderById({r \in t : r.ID = key})

\* SELECT "ID", "VALUE" FROM t WHERE "ID" IN (?, ...)
SelectWhereIdIn(t, keys) == OrderById({r \in t : r.ID \in Range(keys)})

\* SELECT COUNT(*) AS "CNT" FROM t WHERE "ID" = ?  (always one row)
CountWhereId(t, key) == <<[CNT |-> Cardinality({r \in t : r.ID = key})]>>

\* SELECT COUNT(*) AS "CNT" FROM t WHERE "ID" IN (?, ...)
CountWhereIdIn(t, keys) ==
    <<[CNT |-> Cardinality({r \in t : r.ID \in Range(keys)})]>>

\* Upsert as a plain INSERT that replaces nothing
UpsertInsertOnly(t, key, value) == t \cup {Row(key, value)}

\* UPSERT t ("ID","VALUE") VALUES (?, ?) WHERE "ID" = ?: the rows matching
\* the condition are replaced, or the row is inserted when there is none
Upsert(t, key, value) == {r \in t : r.ID # key} \cup {Row(key, value)}

\* DeleteWhereId whose WHERE clause matches no row
DeleteWhereIdNone(t, key) == t

\* DELETE FROM t WHERE "ID" = ?
DeleteWhereId(t, key) == {r \in t : r.ID # key}

\* DeleteWhereIdIn that binds only the first key
DeleteWhereIdInFirst(t, keys) == {r \in t : r.ID # keys[1]}

\* DELETE FROM t WHERE "ID" IN (?, ...)
DeleteWhereIdIn(t, keys) == {r \in t : r.ID \notin Range(keys)}

\* DELETE FROM t WHERE "ID" LIKE ? ESCAPE '\'
DeleteWhereLike(t, pattern) == {r \in t : ~Like(r.ID, pattern)}

\* the first `n` elements of a sequence (none for n < 1)
Take(seq, n) == SubSeq(seq, 1, IF n < Len(seq) THEN n ELSE Len(seq))

\* SelectBatch without `AND "ID" > ?`: the cursor is not used
SelectBatchNoCursor(t, pattern, lastKey, limit) ==
    Take(OrderById({r \in t : Like(r.ID, pattern)}), limit)

\* SELECT "ID","VALUE" FROM t WHERE "ID" LIKE ? ESCAPE '\' [AND "ID" > ?]
\* ORDER BY "ID" LIMIT limit; lastKey = <<>> stands for null (no cursor)
SelectBatch(t, pattern, lastKey, limit) ==
    Take(OrderById({r \in t : /\ Like(r.ID, pattern)
                              /\ (lastKey = <<>> \/ StrLess(lastKey, r.ID))}),
         limit)


(***************************************************************************)
(* Results the handlers compute from a result set.                         *)
(***************************************************************************)
\* get: undefined when there is no row, else rows[0].VALUE
GetResult(rows) == IF Len(rows) = 0 THEN Undefined ELSE rows[1].VALUE

\* NothingToDelete with the count test inverted
NothingToDeleteInverted(rows) == Len(rows) = 0 \/ rows[1].CNT # 0

\* delete / deleteMany: the early `return false` test on the COUNT result
NothingToDelete(rows) == Len(rows) = 0 \/ rows[1].CNT = 0

\* has: rows.length > 0 && rows[0].CNT > 0
HasResult(rows) == Len(rows) > 0 /\ rows[1].CNT > 0

\* new Map(rows.map(row => [row.ID, row.VALUE])).get(key): the value of the
\* last row with that ID, undefined when there is none
MapGet(rows, key) ==
    LET at == {i \in 1..Len(rows) : rows[i].ID = key}
    IN  IF at = {} THEN Undefined
        ELSE rows[CHOOSE i \in at : \A j \in at : j <= i].VALUE

\* GetManyResult with || in place of ??: a falsy value becomes undefined
GetManyResultOr(keys, rows) ==
    [i \in 1..Len(keys) |->
        LET found == MapGet(rows, keys[i])
        IN  IF found = Undefined \/ found = "" THEN Undefined ELSE found]

\* getMany: keys.map(key => rowsMap.get(key) ?? undefined)
GetManyResult(keys, rows) ==
    [i \in 1..Len(keys) |->
        LET found == MapGet(rows, keys[i])
        IN  IF found = Undefined THEN Undefined ELSE found]

\* HasManyResult that reads the rows by position instead of by id
HasManyResultByPosition(keys, rows) == [i \in 1..Len(keys) |-> i <= Len(rows)]

\* hasMany: keys.map(key => existingKeys.has(key))
HasManyResult(keys, rows) ==
    [i \in 1..Len(keys) |-> \E j \in 1..Len(rows) : rows[j].ID = keys[i]]

\* String(opts.iterationLimit), the text handed to parseInt
StrUndefined == <<"u", "n", "d", "e", "f", "i", "n", "e", "d">>

IsDigit(c) == c \in {"0", "1", "2", "3", "4", "5", "6", "7", "8", "9"}

DigitValue(c) ==
    CASE c = "0" -> 0 [] c = "1" -> 1 [] c = "2" -> 2 [] c = "3" -> 3
      [] c = "4" -> 4 [] c = "5" -> 5 [] c = "6" -> 6 [] c = "7" -> 7
      [] c = "8" -> 8 [] c = "9" -> 9

\* the value of the leading run of digits of s, continuing from acc
RECURSIVE ParseDigits(_, _)
ParseDigits(s, acc) ==
    IF s = <<>> \/ ~IsDigit(Head(s)) THEN acc
    ELSE ParseDigits(Tail(s), acc * 10 + DigitValue(Head(s)))

\* StrWhiteSpaceChar, the white space that parseInt skips at the start of
\* its text: the 25 characters of WhiteSpace (tab, vertical tab U+000B, form
\* feed, U+FEFF and the space separators: blank, U+00A0, U+1680, U+2000 to
\* U+200A, U+202F, U+205F, U+3000) and of LineTerminator (line feed,
\* carriage return, U+2028, U+2029).  U+000B, U+00A0, U+1680 and U+FEFF are
\* written as themselves; a character that a TLA+ string cannot hold is
\* written as the name of its code point.
WhiteSpaceChars ==
    {" ", "\t", "\n", "\r", "\f"} \cup
    {"", " ", " ", "﻿"} \cup
    {"U+2000", "U+2001", "U+2002", "U+2003", "U+2004", "U+2005", "U+2006",
     "U+2007", "U+2008", "U+2009", "U+200A", "U+2028", "U+2029", "U+202F",
     "U+205F", "U+3000"}

IsWhiteSpace(c) == c \in WhiteSpaceChars

\* s without its leading white space
RECURSIVE TrimStart(_)
TrimStart(s) ==
    IF s # <<>> /\ IsWhiteSpace(Head(s)) THEN TrimStart(Tail(s)) ELSE s

\* Number.parseInt(s, 10): leading white space is skipped, then an optional
\* sign and the leading digits; NaN when no digit follows
ParseInt(s) ==
    LET text   == TrimStart(s)
        signed == text # <<>> /\ Head(text) \in {"-", "+"}
        body   == IF signed THEN Tail(text) ELSE text
    IN  IF body = <<>> \/ ~IsDigit(Head(body))
        THEN [nan |-> TRUE, n |-> 0]
        ELSE [nan |-> FALSE,
              n   |-> IF signed /\ Head(text) = "-" THEN 0 - ParseDigits(body, 0)
                                                    ELSE ParseDigits(body, 0)]

\* iterator: Number.parseInt(String(this.opts.iterationLimit), 10) || 10
\* (NaN and 0 are falsy)
IterationLimit(text) ==
    LET parsed == ParseInt(text)
    IN  IF parsed.nan \/ parsed.n = 0 THEN 10 ELSE parsed.n

(***************************************************************************)
(* State.                                                                  *)
(***************************************************************************)
VARIABLES
    createTable,  \* opts.createTable: "undefined", "true" or "false"
    conn,         \* this._conn is set
    ready,        \* this._ready: "pending", "resolved" or "rejected"
    initPc,       \* where _init stands: "connect", "create", "done", "failed"
    sess,         \* the driver's session: "connecting", "connected",
                  \* "failed" or "closed"
    errorEvents,  \* number of 'error' events delivered to a listener
    emitted,      \* the errors handed to this.emit('error', error), in order
    createAnswer, \* the answer to CREATE TABLE: "none" before it, then
                  \* "created", "288" or "error"
    connects,     \* number of conn.connect calls
    creates,      \* number of CREATE TABLE statements sent
    table,        \* the rows of the backing table
    inflight,     \* the callers whose statement conn.exec has taken and not
                  \* yet answered, oldest first
    call          \* per caller: the operation in progress and its locals

lifeVars == <<createTable, conn, ready, initPc, sess, errorEvents, emitted,
              createAnswer, connects, creates>>
vars == <<createTable, conn, ready, initPc, sess, errorEvents, emitted,
          createAnswer, connects, creates, table, inflight, call>>

\* callers of the adapter
Procs == {"p1", "p2"}

\* the caller of the sequential specifications, whose operations run one at
\* a time
Callers == {"p1"}

\* sequences over S of length at most n
SeqsUpTo(S, n) == UNION {[1..m -> S] : m \in 0..n}

KeyLists == SeqsUpTo(Ids, MaxKeys)
EntryKeys == {IdAK, IdBK}
EntryLists == SeqsUpTo({[key |-> k, value |-> v] : k \in EntryKeys, v \in Values},
                       MaxKeys)
\* String(opts.iterationLimit) for the options undefined, 0, 1, 2, -1, 'a',
\* ' 2' and '1' after a no-break space
LimitOptions ==
    {StrUndefined, <<"0">>, <<"1">>, <<"2">>, <<"-", "1">>, <<"a">>, <<" ", "2">>,
     <<" ", "1">>}
CreateTableOptions == {"undefined", "true", "false"}

\* a caller with no operation in progress; `flight` tells that a statement
\* of the call is with the driver
Idle ==
    [op |-> "idle", pc |-> "idle", at |-> "idle", key |-> <<>>, value |-> "", keys |-> <<>>,
     entries |-> <<>>, ns |-> <<>>, limit |-> 0, i |-> 0, res |-> Undefined,
     err |-> "none", stmts |-> <<>>, pre |-> {}, lastKey |-> <<>>,
     batch |-> <<>>, snap |-> {}, yielded |-> <<>>, flight |-> FALSE]

\* the state right after `new KeyvHana(options)`: _init has run up to its
\* first await, so the handle is set and connect has been called
Init ==
    /\ createTable \in CreateTableOptions
    /\ conn = TRUE
    /\ ready = "pending"
    /\ initPc = "connect"
    /\ sess = "connecting"
    /\ errorEvents = 0
    /\ emitted = <<>>
    /\ createAnswer = "none"
    /\ connects = 1
    /\ creates = 0
    /\ table = {}
    /\ inflight = <<>>
    /\ call = [p \in Procs |-> Idle]

(***************************************************************************)
(* Initialisation: _init and the constructor's catch handler.              *)
(***************************************************************************)
\* _init threw `error`: .catch(error => this.emit('error', error)).  With a
\* listener the event is delivered and _ready resolves; without one emit
\* throws the error and _ready rejects.
InitFailed(error, listener) ==
    /\ initPc' = "failed"
    /\ emitted' = Append(emitted, error)
    /\ IF listener
       THEN errorEvents' = errorEvents + 1 /\ ready' = "resolved"
       ELSE errorEvents' = errorEvents /\ ready' = "rejected"

\* _init returned
InitDone ==
    /\ initPc' = "done"
    /\ ready' = "resolved"
    /\ errorEvents' = errorEvents
    /\ emitted' = emitted

\* the callback of conn.connect, and _init up to its next await
ConnectCallback ==
    /\ initPc = "connect"
    /\ UNCHANGED <<createTable, conn, connects, createAnswer, table, inflight,
                   call>>
    /\ \E ok \in BOOLEAN, listener \in BOOLEAN :
        IF ~ok
        THEN /\ sess' = IF sess = "connecting" THEN "failed" ELSE sess
             /\ creates' = creates
             /\ InitFailed("Connect", listener)
        ELSE /\ sess' = IF sess = "connecting" THEN "connected" ELSE sess
             /\ IF createTable = "false"
                THEN creates' = creates /\ InitDone
                ELSE IF ~conn
                     \* _rawExec rejects 'Connection not established', which
                     \* has no code 288 and is rethrown
                     THEN creates' = creates /\ InitFailed("NoConn", listener)
                     ELSE /\ creates' = creates + 1
                          /\ initPc' = "create"
                          /\ UNCHANGED <<ready, errorEvents, emitted>>

\* the answers the driver can give to CREATE COLUMN TABLE: created, refused
\* with code 288 (duplicate table name), or refused with another error
CreateAnswers ==
    IF sess = "connected" THEN {"created", "288", "error"} ELSE {"error"}

\* CreateCallback without `if (error?.code !== 288)`: every refusal is thrown
CreateCallbackRethrowAll ==
    /\ initPc = "create"
    /\ UNCHANGED <<createTable, conn, sess, connects, creates, table, inflight,
                   call>>
    /\ \E outcome \in CreateAnswers, listener \in BOOLEAN :
        /\ createAnswer' = outcome
        /\ IF outcome # "created" THEN InitFailed("Create", listener) ELSE InitDone

\* the callback of the CREATE COLUMN TABLE statement: code 288 is swallowed,
\* any other error is thrown out of _init
CreateCallback ==
    /\ initPc = "create"
    /\ UNCHANGED <<createTable, conn, sess, connects, creates, table, inflight,
                   call>>
    /\ \E outcome \in CreateAnswers, listener \in BOOLEAN :
        /\ createAnswer' = outcome
        /\ IF outcome = "error" THEN InitFailed("Create", listener) ELSE InitDone

(***************************************************************************)
(* The execution gateway: _exec and _rawExec.                              *)
(***************************************************************************)
\* what _exec does once _ready has settled, before anything is sent:
\* rethrow the rejection of _ready, reject when the handle is not set, or
\* hand the statement to conn.exec
Gate ==
    IF ready = "rejected" THEN "NotReady"
    ELSE IF ~conn THEN "NoConn"
    ELSE "send"

\* what the driver can answer to a statement sent on the session
DriverOutcomes == IF sess = "connected" THEN {"ok", "error"} ELSE {"error"}

Failed(c, e) == [c EXCEPT !.pc = "done", !.err = e]
Returned(c, r) == [c EXCEPT !.pc = "done", !.res = r]
Sent(c, kind) == [c EXCEPT !.stmts = Append(@, kind)]
Answered(c) == [c EXCEPT !.flight = FALSE]


(***************************************************************************)
(* Invocation and return.                                                  *)
(***************************************************************************)
\* the calls a caller can make, with their arguments; clear reads
\* this.namespace and iterator reads this.opts.iterationLimit on entry
Invocations ==
    {[Idle EXCEPT !.op = "get", !.key = k] : k \in Ids}
    \cup {[Idle EXCEPT !.op = "set", !.key = k, !.value = v] : k \in Ids, v \in Values}
    \cup {[Idle EXCEPT !.op = "delete", !.key = k] : k \in Ids}
    \cup {[Idle EXCEPT !.op = "has", !.key = k] : k \in Ids}
    \cup {[Idle EXCEPT !.op = "clear", !.ns = ns] : ns \in Namespaces}
    \cup {[Idle EXCEPT !.op = o, !.keys = ks] :
              o \in {"getMany", "hasMany", "deleteMany"}, ks \in KeyLists}
    \cup {[Idle EXCEPT !.op = "setMany", !.entries = es, !.i = 1] : es \in EntryLists}
    \cup {[Idle EXCEPT !.op = "iterator", !.ns = ns, !.limit = IterationLimit(lim)] :
              ns \in Namespaces, lim \in LimitOptions}
    \cup {[Idle EXCEPT !.op = "disconnect"]}

\* a caller invokes an operation while no other call is in progress; `pre`
\* remembers the table and `at` the stage of _init at that moment
Call(p) ==
    /\ \A q \in Procs : call[q].pc = "idle"
    /\ \E inv \in Invocations :
        call' = [call EXCEPT ![p] = [inv EXCEPT !.pc = "start", !.at = initPc,
                                                 !.pre = table]]
    /\ UNCHANGED <<lifeVars, table, inflight>>

\* the caller has taken the result (or the error) of its finished call, or
\* is done with the iteration it stopped
Return(p) ==
    /\ call[p].pc \in {"done", "stopped"}
    /\ call' = [call EXCEPT ![p] = Idle]
    /\ UNCHANGED <<lifeVars, table, inflight>>

(***************************************************************************)
(* Single-statement operations.                                            *)
(***************************************************************************)
\* _exec up to the call of conn.exec, for caller p whose record is c0:
\* `await this._ready`, then _rawExec tests the handle and hands the
\* statement to the driver, where it is logged as `kind` and in flight
ExecSend(p, c0, kind) ==
    /\ ready # "pending"
    /\ UNCHANGED <<lifeVars, table>>
    /\ IF Gate # "send"
       THEN /\ call' = [call EXCEPT ![p] = Failed(c0, Gate)]
            /\ inflight' = inflight
       ELSE /\ call' = [call EXCEPT ![p] = [Sent(c0, kind) EXCEPT !.flight = TRUE]]
            /\ inflight' = Append(inflight, p)

\* the callback of conn.exec for the oldest statement in flight, which is
\* the one of caller p: an error rejects the call, a result makes the
\* caller's record `after` and the table `t2`
ExecAnswer(p, c0, after, t2) ==
    /\ inflight # <<>> /\ Head(inflight) = p
    /\ inflight' = Tail(inflight)
    /\ UNCHANGED lifeVars
    /\ \E outcome \in DriverOutcomes :
        IF outcome = "error"
        THEN /\ call' = [call EXCEPT ![p] = Failed(Answered(c0), "Exec")]
             /\ table' = table
        ELSE /\ call' = [call EXCEPT ![p] = after]
             /\ table' = t2

\* ExecStep with a gateway that opens a new session when the handle is not
\* set, instead of rejecting 'Connection not established'
ExecStepReconnects(p, c0, kind, after, t2) ==
    IF c0.flight
    THEN ExecAnswer(p, c0, after, t2)
    ELSE /\ ready # "pending"
         /\ UNCHANGED <<createTable, ready, initPc, errorEvents, emitted,
                        createAnswer, creates, table>>
         /\ IF Gate = "NotReady"
            THEN /\ call' = [call EXCEPT ![p] = Failed(c0, Gate)]
                 /\ UNCHANGED <<conn, sess, connects, inflight>>
            ELSE /\ conn' = TRUE
                 /\ sess' = IF conn THEN sess ELSE "connected"
                 /\ connects' = IF conn THEN connects ELSE connects + 1
                 /\ call' = [call EXCEPT ![p] = [Sent(c0, kind) EXCEPT !.flight = TRUE]]
                 /\ inflight' = Append(inflight, p)

\* ExecStep without `await this._ready`: the gateway is asked at once
ExecStepNoWait(p, c0, kind, after, t2) ==
    IF c0.flight
    THEN ExecAnswer(p, c0, after, t2)
    ELSE /\ UNCHANGED <<lifeVars, table>>
         /\ IF Gate # "send"
            THEN /\ call' = [call EXCEPT ![p] = Failed(c0, Gate)]
                 /\ inflight' = inflight
            ELSE /\ call' = [call EXCEPT ![p] = [Sent(c0, kind) EXCEPT !.flight = TRUE]]
                 /\ inflight' = Append(inflight, p)

\* ExecStep with a gateway that drops the handle when a statement fails
ExecStepDropsConn(p, c0, kind, after, t2) ==
    IF ~c0.flight
    THEN ExecSend(p, c0, kind)
    ELSE /\ inflight # <<>> /\ Head(inflight) = p
         /\ inflight' = Tail(inflight)
         /\ UNCHANGED <<createTable, ready, initPc, sess, errorEvents, emitted,
                        createAnswer, connects, creates>>
         /\ \E outcome \in DriverOutcomes :
             IF outcome = "error"
             THEN /\ call' = [call EXCEPT ![p] = Failed(Answered(c0), "Exec")]
                  /\ table' = table
                  /\ conn' = FALSE
             ELSE /\ call' = [call EXCEPT ![p] = after]
                  /\ table' = t2
                  /\ conn' = conn

\* one statement through _exec, issued by caller p whose record is c0, in
\* two steps with the event loop in between: the statement is sent (logged
\* as `kind`), and it is answered; `after` is the caller's record after a
\* successful answer and `t2` the table then
ExecStep(p, c0, kind, after, t2) ==
    IF c0.flight
    THEN ExecAnswer(p, c0, after, t2)
    ELSE ExecSend(p, c0, kind)

\* a step of a handler that sends nothing and touches no other state
LocalStep(p, c) ==
    /\ call' = [call EXCEPT ![p] = c]
    /\ UNCHANGED <<lifeVars, table, inflight>>

Get(p) ==
    /\ call[p].op = "get" /\ call[p].pc = "start"
    /\ LET c == Answered(call[p])
       IN  ExecStep(p, call[p], "SELECT",
                    Returned(c, GetResult(SelectWhereId(table, c.key))), table)

Set(p) ==
    /\ call[p].op = "set" /\ call[p].pc = "start"
    /\ ExecStep(p, call[p], "UPSERT",
                Returned(Answered(call[p]), Undefined),
                Upsert(table, call[p].key, call[p].value))

Has(p) ==
    /\ call[p].op = "has" /\ call[p].pc = "start"
    /\ LET c == Answered(call[p])
       IN  ExecStep(p, call[p], "COUNT",
                    Returned(c, HasResult(CountWhereId(table, c.key))), table)

Clear(p) ==
    /\ call[p].op = "clear" /\ call[p].pc = "start"
    /\ ExecStep(p, call[p], "DELETE",
                Returned(Answered(call[p]), Undefined),
                DeleteWhereLike(table, ClearPattern(call[p].ns)))

(***************************************************************************)
(* delete and deleteMany: an existence check, then the DELETE.             *)
(***************************************************************************)
Delete(p) ==
    /\ call[p].op = "delete"
    /\ \/ /\ call[p].pc = "start"
          /\ LET c == Answered(call[p])
             IN  ExecStep(p, call[p], "COUNT",
                          IF NothingToDelete(CountWhereId(table, c.key))
                          THEN Returned(c, FALSE)
                          ELSE [c EXCEPT !.pc = "delete"],
                          table)
       \/ /\ call[p].pc = "delete"
          /\ ExecStep(p, call[p], "DELETE",
                      Returned(Answered(call[p]), TRUE),
                      DeleteWhereId(table, call[p].key))

DeleteMany(p) ==
    /\ call[p].op = "deleteMany"
    /\ \/ /\ call[p].pc = "start"
          /\ Len(call[p].keys) = 0
          /\ LocalStep(p, Returned(call[p], FALSE))
       \/ /\ call[p].pc = "start"
          /\ Len(call[p].keys) # 0
          /\ LET c == Answered(call[p])
             IN  ExecStep(p, call[p], "COUNT",
                          IF NothingToDelete(CountWhereIdIn(table, c.keys))
                          THEN Returned(c, FALSE)
                          ELSE [c EXCEPT !.pc = "delete"],
                          table)
       \/ /\ call[p].pc = "delete"
          /\ ExecStep(p, call[p], "DELETE",
                      Returned(Answered(call[p]), TRUE),
                      DeleteWhereIdIn(table, call[p].keys))

(***************************************************************************)
(* getMany, hasMany, setMany.                                              *)
(***************************************************************************)
GetMany(p) ==
    /\ call[p].op = "getMany" /\ call[p].pc = "start"
    /\ IF Len(call[p].keys) = 0
       THEN LocalStep(p, Returned(call[p], <<>>))
       ELSE LET c == Answered(call[p])
            IN  ExecStep(p, call[p], "SELECT",
                         Returned(c, GetManyResult(c.keys,
                                                   SelectWhereIdIn(table, c.keys))),
                         table)

HasMany(p) ==
    /\ call[p].op = "hasMany" /\ call[p].pc = "start"
    /\ IF Len(call[p].keys) = 0
       THEN LocalStep(p, Returned(call[p], <<>>))
       ELSE LET c == Answered(call[p])
            IN  ExecStep(p, call[p], "SELECT",
                         Returned(c, HasManyResult(c.keys,
                                                   SelectWhereIdIn(table, c.keys))),
                         table)

\* SetMany inside a transaction: a failed statement undoes the earlier ones
SetManyRollback(p) ==
    /\ call[p].op = "setMany" /\ call[p].pc = "start"
    /\ IF call[p].i > Len(call[p].entries)
       THEN LocalStep(p, Returned(call[p], Undefined))
       ELSE LET entry == call[p].entries[call[p].i]
                c     == Answered(call[p])
            IN  IF ~call[p].flight
                THEN ExecSend(p, call[p], "UPSERT")
                ELSE /\ inflight # <<>> /\ Head(inflight) = p
                     /\ inflight' = Tail(inflight)
                     /\ UNCHANGED lifeVars
                     /\ \E outcome \in DriverOutcomes :
                         IF outcome = "error"
                         THEN /\ call' = [call EXCEPT ![p] = Failed(c, "Exec")]
                              /\ table' = call[p].pre
                         ELSE /\ call' = [call EXCEPT ![p] =
                                             IF c.i = Len(c.entries)
                                             THEN Returned([c EXCEPT !.i = @ + 1],
                                                           Undefined)
                                             ELSE [c EXCEPT !.i = @ + 1]]
                              /\ table' = Upsert(table, entry.key, entry.value)

\* one round of `for (const entry of entries) await this._exec(...)`; i is
\* the position of the next entry, and the call returns after the last one
SetMany(p) ==
    /\ call[p].op = "setMany" /\ call[p].pc = "start"
    /\ IF call[p].i > Len(call[p].entries)
       THEN LocalStep(p, Returned(call[p], Undefined))
       ELSE LET entry == call[p].entries[call[p].i]
                c     == Answered(call[p])
            IN  ExecStep(p, call[p], "UPSERT",
                         IF c.i = Len(c.entries)
                         THEN Returned([c EXCEPT !.i = @ + 1], Undefined)
                         ELSE [c EXCEPT !.i = @ + 1],
                         Upsert(table, entry.key, entry.value))

(***************************************************************************)
(* iterator: one pull of the consumer (generator.next()).                  *)
(***************************************************************************)
\* IteratorNext without `if (entries.length < limit) return`: a used-up
\* batch is always followed by the next query
IteratorNextNoShortStop(p) ==
    /\ call[p].op = "iterator"
    /\ LET c == call[p]
           c1 == Answered(c)
           c2 == Answered([c EXCEPT !.lastKey = c.batch[Len(c.batch)].ID])
           first == SelectBatch(table, IteratorPattern(c.ns), c.lastKey, c.limit)
           more == SelectBatch(table, IteratorPattern(c.ns),
                               c.batch[Len(c.batch)].ID, c.limit)
       IN
       \/ /\ c.pc = "start"
          /\ ExecStep(p, c, "SELECT",
                      IF Len(first) = 0
                      THEN Returned(c1, Undefined)
                      ELSE [c1 EXCEPT !.pc = "yielded", !.batch = first, !.i = 2,
                                      !.snap = table,
                                      !.yielded = Append(@, <<first[1].ID,
                                                              first[1].VALUE>>)],
                      table)
       \/ /\ c.pc = "yielded"
          /\ c.i <= Len(c.batch)
          /\ LocalStep(p, [c EXCEPT !.i = @ + 1,
                                    !.yielded = Append(@, <<c.batch[c.i].ID,
                                                            c.batch[c.i].VALUE>>)])
       \/ /\ c.pc = "yielded"
          /\ c.i > Len(c.batch)
          /\ ExecStep(p, [c EXCEPT !.lastKey = c.batch[Len(c.batch)].ID], "SELECT",
                      IF Len(more) = 0
                      THEN Returned(c2, Undefined)
                      ELSE [c2 EXCEPT !.pc = "yielded", !.batch = more, !.i = 2,
                                      !.snap = table,
                                      !.yielded = Append(@, <<more[1].ID,
                                                              more[1].VALUE>>)],
                      table)

\* the batch query and what follows a successful answer: return on an empty
\* batch, else yield its first row; `snap` remembers the table the batch
\* was read from
IteratorQuery(p, c0) ==
    LET c       == Answered(c0)
        entries == SelectBatch(table, IteratorPattern(c.ns), c.lastKey, c.limit)
    IN  ExecStep(p, c0, "SELECT",
                 IF Len(entries) = 0
                 THEN Returned(c, Undefined)
                 ELSE [c EXCEPT !.pc = "yielded", !.batch = entries, !.i = 2,
                                !.snap = table,
                                !.yielded = Append(@, <<entries[1].ID, entries[1].VALUE>>)],
                 table)

IteratorNext(p) ==
    /\ call[p].op = "iterator"
    /\ LET c == call[p] IN
       \/ \* the first pull: lastKey is null
          /\ c.pc = "start"
          /\ IteratorQuery(p, c)
       \/ \* the next row of the current batch
          /\ c.pc = "yielded"
          /\ c.i <= Len(c.batch)
          /\ LocalStep(p, [c EXCEPT !.i = @ + 1,
                                    !.yielded = Append(@, <<c.batch[c.i].ID,
                                                            c.batch[c.i].VALUE>>)])
       \/ \* the batch is used up and was short: lastKey is set, return
          /\ c.pc = "yielded"
          /\ c.i > Len(c.batch)
          /\ Len(c.batch) < c.limit
          /\ LocalStep(p, Returned([c EXCEPT !.lastKey = c.batch[Len(c.batch)].ID],
                                   Undefined))
       \/ \* the batch is used up and was full: lastKey is set, next batch
          /\ c.pc = "yielded"
          /\ c.i > Len(c.batch)
          /\ Len(c.batch) >= c.limit
          /\ IteratorQuery(p, [c EXCEPT !.lastKey = c.batch[Len(c.batch)].ID])

\* the consumer stops pulling (break out of `for await`, generator.return()):
\* the generator ends at its `yield` and runs no further code
Abandon(p) ==
    /\ call[p].op = "iterator"
    /\ call[p].pc = "yielded"
    /\ ~call[p].flight
    /\ LocalStep(p, [call[p] EXCEPT !.pc = "stopped"])

(***************************************************************************)
(* disconnect.                                                             *)
(***************************************************************************)
\* Disconnect that clears the handle in a `finally`: also when the close
\* reported an error
DisconnectClearsAlways(p) ==
    /\ call[p].op = "disconnect"
    /\ \/ /\ call[p].pc = "start"
          /\ IF conn
             THEN LocalStep(p, [Sent(call[p], "DISCONNECT") EXCEPT !.pc = "closing"])
             ELSE LocalStep(p, Returned(call[p], Undefined))
       \/ /\ call[p].pc = "closing"
          /\ UNCHANGED <<createTable, ready, initPc, errorEvents, emitted,
                         createAnswer, connects, creates, table, inflight>>
          /\ conn' = FALSE
          /\ \E ok \in BOOLEAN :
              IF ok
              THEN /\ sess' = "closed"
                   /\ call' = [call EXCEPT ![p] = Returned(call[p], Undefined)]
              ELSE /\ sess' = sess
                   /\ call' = [call EXCEPT ![p] = Failed(call[p], "Close")]

Disconnect(p) ==
    /\ call[p].op = "disconnect"
    /\ \/ \* `if (this._conn)`: call conn.disconnect, or return at once
          /\ call[p].pc = "start"
          /\ IF conn
             THEN LocalStep(p, [Sent(call[p], "DISCONNECT") EXCEPT !.pc = "closing"])
             ELSE LocalStep(p, Returned(call[p], Undefined))
       \/ \* the callback of conn.disconnect
          /\ call[p].pc = "closing"
          /\ UNCHANGED <<createTable, ready, initPc, errorEvents, emitted,
                         createAnswer, connects, creates, table, inflight>>
          /\ \E ok \in BOOLEAN :
              IF ok
              THEN /\ conn' = FALSE
                   /\ sess' = "closed"
                   /\ call' = [call EXCEPT ![p] = Returned(call[p], Undefined)]
              ELSE /\ UNCHANGED <<conn, sess>>
                   /\ call' = [call EXCEPT ![p] = Failed(call[p], "Close")]

(***************************************************************************)
(* Specification: initialisation runs beside the caller, whose operations  *)
(* run one at a time.                                                      *)
(***************************************************************************)
Next ==
    \/ ConnectCallback
    \/ CreateCallback
    \/ \E p \in Callers :
        \/ Call(p)
        \/ Return(p)
        \/ Get(p)
        \/ Set(p)
        \/ Delete(p)
        \/ Clear(p)
        \/ Has(p)
        \/ GetMany(p)
        \/ SetMany(p)
        \/ DeleteMany(p)
        \/ HasMany(p)
        \/ IteratorNext(p)
        \/ Abandon(p)
        \/ Disconnect(p)

Spec == Init /\ [][Next]_vars

(***************************************************************************)
(* Specification of the LIKE patterns: clear() and iterator(namespace) on  *)
(* a ready adapter, over namespaces and ids that contain the characters    *)
(* LIKE reserves.                                                          *)
(***************************************************************************)
\* namespaces with %, _ and \ in them, and a plain one
PatternNamespaces ==
    {<<"%">>, <<"_">>, <<"\\">>, <<"a">>, <<"a", "_">>, <<"a", "%">>}

\* ids of these namespaces, and ids that their unescaped patterns would match
PatternIds ==
    {<<"%", ":", "k">>, <<"%", ":", "a">>, <<"_", ":", "k">>, <<"\\", ":", "k">>,
     <<"a", ":", "k">>, <<"a", "_", ":", "k">>, <<"a", "b", ":", "k">>,
     <<"a", "%", ":", "k">>}

\* an adapter whose initialisation has succeeded (createTable: false), with
\* any set of stored entries
InitPattern ==
    /\ createTable = "false"
    /\ conn = TRUE
    /\ ready = "resolved"
    /\ initPc = "done"
    /\ sess = "connected"
    /\ errorEvents = 0
    /\ emitted = <<>>
    /\ createAnswer = "none"
    /\ connects = 1
    /\ creates = 0
    /\ table \in {{Row(id, "v") : id \in S} : S \in SUBSET PatternIds}
    /\ inflight = <<>>
    /\ call = [p \in Procs |-> Idle]

\* clear() under this.namespace = ns, and iterator(ns) with iterationLimit 2
PatternInvocations ==
    {[Idle EXCEPT !.op = "clear", !.ns = ns] : ns \in PatternNamespaces}
    \cup {[Idle EXCEPT !.op = "iterator", !.ns = ns,
                       !.limit = IterationLimit(<<"2">>)] : ns \in PatternNamespaces}

CallPattern(p) ==
    /\ \A q \in Procs : call[q].pc = "idle"
    /\ \E inv \in PatternInvocations :
        call' = [call EXCEPT ![p] = [inv EXCEPT !.pc = "start", !.at = initPc,
                                                 !.pre = table]]
    /\ UNCHANGED <<lifeVars, table, inflight>>

NextPattern ==
    \E p \in Callers :
        \/ CallPattern(p)
        \/ Return(p)
        \/ Clear(p)
        \/ IteratorNext(p)

SpecPattern == InitPattern /\ [][NextPattern]_vars

(***************************************************************************)
(* Specification of concurrent deletes: the callers invoke delete(key) on  *)
(* a ready adapter without waiting for one another; their statements       *)
(* interleave one whole statement at a time.                               *)
(***************************************************************************)
\* an adapter whose initialisation has succeeded (createTable: false), with
\* any set of stored entries
InitRace ==
    /\ createTable = "false"
    /\ conn = TRUE
    /\ ready = "resolved"
    /\ initPc = "done"
    /\ sess = "connected"
    /\ errorEvents = 0
    /\ emitted = <<>>
    /\ createAnswer = "none"
    /\ connects = 1
    /\ creates = 0
    /\ table \in {{Row(id, "v") : id \in S} : S \in SUBSET Ids}
    /\ inflight = <<>>
    /\ call = [p \in Procs |-> Idle]

\* caller p invokes delete(key), whatever the other callers are doing
CallDelete(p) ==
    /\ call[p].pc = "idle"
    /\ \E k \in Ids :
        call' = [call EXCEPT ![p] = [Idle EXCEPT !.op = "delete", !.key = k,
                                                  !.pc = "start", !.at = initPc,
                                                  !.pre = table]]
    /\ UNCHANGED <<lifeVars, table, inflight>>

NextRace ==
    \E p \in Procs :
        \/ CallDelete(p)
        \/ Return(p)
        \/ Delete(p)

SpecRace == InitRace /\ [][NextRace]_vars

(***************************************************************************)
(* Specification of an iteration beside writers: one caller iterates, the  *)
(* other invokes set, delete and clear meanwhile, on a ready adapter;      *)
(* their statements interleave one whole statement at a time.              *)
(***************************************************************************)
\* the caller that iterates and the caller that writes
Reader == "p1"
Writer == "p2"

\* the ids that can have a row in this specification
IterateIds == {IdAK, IdABK, IdBK}

\* an adapter whose initialisation has succeeded (createTable: false), with
\* any set of stored entries
InitIterate ==
    /\ createTable = "false"
    /\ conn = TRUE
    /\ ready = "resolved"
    /\ initPc = "done"
    /\ sess = "connected"
    /\ errorEvents = 0
    /\ emitted = <<>>
    /\ createAnswer = "none"
    /\ connects = 1
    /\ creates = 0
    /\ table \in {{Row(id, "v") : id \in S} : S \in SUBSET IterateIds}
    /\ inflight = <<>>
    /\ call = [p \in Procs |-> Idle]

\* iterator(ns) with iterationLimit 1 or 2, and the writes set(key, 'v'),
\* delete(key) and clear() under a namespace
IterateInvocations ==
    {[Idle EXCEPT !.op = "iterator", !.ns = ns, !.limit = IterationLimit(lim)] :
        ns \in {NoNamespace, <<"a">>}, lim \in {<<"1">>, <<"2">>}}

WriteInvocations ==
    {[Idle EXCEPT !.op = "set", !.key = k, !.value = "v"] : k \in IterateIds}
    \cup {[Idle EXCEPT !.op = "delete", !.key = k] : k \in IterateIds}
    \cup {[Idle EXCEPT !.op = "clear", !.ns = ns] : ns \in {NoNamespace, <<"a">>}}

\* a caller invokes one of its operations, whatever the other is doing
CallIterate(p) ==
    /\ p = Reader
    /\ call[p].pc = "idle"
    /\ \E inv \in IterateInvocations :
        call' = [call EXCEPT ![p] = [inv EXCEPT !.pc = "start", !.at = initPc,
                                                 !.pre = table]]
    /\ UNCHANGED <<lifeVars, table, inflight>>

CallWrite(p) ==
    /\ p = Writer
    /\ call[p].pc = "idle"
    /\ \E inv \in WriteInvocations :
        call' = [call EXCEPT ![p] = [inv EXCEPT !.pc = "start", !.at = initPc,
                                                 !.pre = table]]
    /\ UNCHANGED <<lifeVars, table, inflight>>

NextIterate ==
    \E p \in Procs :
        \/ CallIterate(p)
        \/ CallWrite(p)
        \/ Return(p)
        \/ IteratorNext(p)
        \/ Abandon(p)
        \/ Set(p)
        \/ Delete(p)
        \/ Clear(p)

SpecIterate == InitIterate /\ [][NextIterate]_vars

(***************************************************************************)
(* Vocabulary of the properties.                                           *)
(***************************************************************************)
\* the call of the record c has returned normally
Finished(c) == c.pc = "done" /\ c.err = "none"

\* the table t holds a row with this id
HasRow(t, id) == \E r \in t : r.ID = id

\* the rows of t with this id
RowsOf(t, id) == {r \in t : r.ID = id}

\* s begins with the text prefix
StartsWith(s, prefix) ==
    Len(s) >= Len(prefix) /\ SubSeq(s, 1, Len(prefix)) = prefix

\* the rows of t that belong to namespace ns: their id begins with "ns:"
EntriesOf(t, ns) == {r \in t : StartsWith(r.ID, ns \o <<":">>)}

\* the call was made with an empty key list or entry list
EmptyList(c) ==
    \/ c.op \in {"getMany", "hasMany", "deleteMany"} /\ Len(c.keys) = 0
    \/ c.op = "setMany" /\ Len(c.entries) = 0

\* get returned what the table held for its key when it was called
GetReturnsStored(c) ==
    IF HasRow(c.pre, c.key)
    THEN \A r \in RowsOf(c.pre, c.key) : c.res = r.VALUE
    ELSE c.res = Undefined

(***************************************************************************)
(* C1.  After disconnect() has completed successfully, every operation     *)
(* invoked afterwards (get, set, delete, clear, has, getMany, setMany,     *)
(* deleteMany, hasMany, the first pull of iterator), for every argument    *)
(* including empty lists, fails: none returns a normal result, none sends  *)
(* a statement and the session is not opened again.                        *)
(* The code returns [] / false / undefined for an empty list before it     *)
(* reaches the gateway, so this fails.                                     *)
(***************************************************************************)
C1AllFailAfterDisconnect ==
    \A p \in Procs :
        LET c == call[p] IN
        (initPc = "done" /\ sess = "closed" /\ ~conn
            /\ c.op \notin {"idle", "disconnect"})
            => /\ c.pc \in {"start", "done"}
               /\ c.pc = "done" => c.err # "none"
               /\ c.stmts = <<>>
               /\ connects = 1

(***************************************************************************)
(* C2.  If initialisation fails, every operation invoked afterwards fails: *)
(* it returns no normal result and sends no statement on the session,      *)
(* with or without an 'error' listener.  Stated here for the calls that    *)
(* reach the gateway (non-empty lists).                                    *)
(* With a listener the catch handler of the constructor turns the failure  *)
(* into a resolved _ready, so this fails.                                  *)
(***************************************************************************)
C2AllFailAfterFailedInit ==
    \A p \in Procs :
        LET c == call[p] IN
        (c.at = "failed" /\ c.op # "disconnect" /\ ~EmptyList(c))
            => /\ c.stmts = <<>>
               /\ c.pc = "done" => c.err # "none"

(***************************************************************************)
(* C3.  set(k, v) leaves exactly one row with id k, holding v (also when a *)
(* row with id k and another value existed: overwrite, no second row), and *)
(* get(k) returns the value the table holds for k when it is called, or    *)
(* not-found when the table has no row with id k.  Calls run one after the *)
(* other, so a get that follows set(k, v) returns v, and v2 after a        *)
(* further set(k, v2).                                                     *)
(***************************************************************************)
C3SetGetRoundTrip ==
    \A p \in Procs :
        LET c == call[p] IN
        /\ (c.op = "set" /\ Finished(c))
            => /\ RowsOf(table, c.key) = {Row(c.key, c.value)}
               /\ Cardinality(RowsOf(table, c.key)) = 1
        /\ (c.op = "get" /\ Finished(c))
            => /\ GetReturnsStored(c)
               /\ Cardinality(RowsOf(c.pre, c.key)) <= 1
               /\ table = c.pre

\* a get has returned the value "v" that an earlier set stored for its key
\* (the table starts empty, so the row comes from a set)
C3Witness ==
    \E p \in Procs :
        /\ call[p].op = "get" /\ Finished(call[p])
        /\ call[p].res = "v"
        /\ Row(call[p].key, "v") \in call[p].pre

(***************************************************************************)
(* C4.  With no concurrent operation, delete(k) on a key that has a row    *)
(* returns true and leaves no row with id k (so a following get(k) returns *)
(* not-found); on a key without a row it returns false, sends no DELETE    *)
(* and leaves the table unchanged.  Rows with another id are unchanged in  *)
(* both cases.                                                             *)
(***************************************************************************)
C4Delete ==
    \A p \in Procs :
        LET c == call[p] IN
        /\ (c.op = "delete" /\ Finished(c))
            => /\ HasRow(c.pre, c.key)
                    => (c.res = TRUE /\ ~HasRow(table, c.key))
               /\ ~HasRow(c.pre, c.key)
                    => /\ c.res = FALSE
                       /\ "DELETE" \notin Range(c.stmts)
                       /\ table = c.pre
               /\ {r \in table : r.ID # c.key} = {r \in c.pre : r.ID # c.key}
        /\ (c.op = "get" /\ Finished(c) /\ ~HasRow(c.pre, c.key))
            => c.res = Undefined

\* a delete has returned true after removing the row of its key while
\* another row stayed in the table
C4Witness ==
    \E p \in Procs :
        /\ call[p].op = "delete" /\ Finished(call[p])
        /\ call[p].res = TRUE
        /\ HasRow(call[p].pre, call[p].key)
        /\ ~HasRow(table, call[p].key)
        /\ table # {}

(***************************************************************************)
(* C5 as stated.  For any two distinct namespaces A and B, clear() on an   *)
(* adapter with namespace A leaves every entry of B (ids "B:key") in the   *)
(* table with its value.  This fails when the ids of B also begin with     *)
(* "A:" (A = "a", B = "a:b") or the other way round.                       *)
(***************************************************************************)
C5AnyTwoNamespaces ==
    \A p \in Procs :
        LET c == call[p] IN
        (c.op = "clear" /\ Finished(c) /\ c.ns # NoNamespace)
            => \A B \in Namespaces \ {c.ns, NoNamespace} :
                   EntriesOf(c.pre, B) \subseteq table

\* neither "A:" nor "B:" is the beginning of the other
Unrelated(A, B) ==
    /\ ~StartsWith(A \o <<":">>, B \o <<":">>)
    /\ ~StartsWith(B \o <<":">>, A \o <<":">>)

(***************************************************************************)
(* C5 amended.  clear() on an adapter with namespace A removes every row   *)
(* whose id begins with "A:" and no other row; hence for two namespaces A  *)
(* and B of which neither "A:" nor "B:" is the beginning of the other,     *)
(* every entry of A is removed and every entry of B stays with its value.  *)
(* Without a namespace clear() removes all rows.                           *)
(***************************************************************************)
C5Clear ==
    \A p \in Procs :
        LET c == call[p] IN
        (c.op = "clear" /\ Finished(c))
            => IF c.ns = NoNamespace
               THEN table = {}
               ELSE /\ EntriesOf(table, c.ns) = {}
                    /\ table = c.pre \ EntriesOf(c.pre, c.ns)
                    /\ \A B \in Namespaces \ {c.ns, NoNamespace} :
                           Unrelated(c.ns, B) => EntriesOf(c.pre, B) \subseteq table

\* a clear under namespace "_" has removed an entry of "_" and kept the
\* entry of another namespace
C5Witness ==
    \E p \in Procs :
        /\ call[p].op = "clear" /\ Finished(call[p])
        /\ call[p].ns = <<"_">>
        /\ EntriesOf(call[p].pre, <<"_">>) # {}
        /\ EntriesOf(table, <<"a">>) # {}
        /\ EntriesOf(table, <<"_">>) = {}

\* the (id, value) pairs of a set of rows
Pairs(rows) == {<<r.ID, r.VALUE>> : r \in rows}

\* the rows an iteration over namespace ns has to yield from the table t
Matching(t, ns) == IF ns = NoNamespace THEN t ELSE EntriesOf(t, ns)

(***************************************************************************)
(* C6.  iterator(ns) over a table that is not modified meanwhile, with a   *)
(* batch limit L >= 1: every pair it yields is an entry whose id begins    *)
(* with "ns:", the ids come in strictly ascending order (so none twice),   *)
(* and when it finishes it has yielded every such entry: exactly N pairs.  *)
(***************************************************************************)
C6Iterator ==
    \A p \in Procs :
        LET c == call[p] IN
        (c.op = "iterator" /\ c.limit >= 1)
            => /\ table = c.pre
               /\ \A i \in 1..Len(c.yielded) :
                      c.yielded[i] \in Pairs(Matching(c.pre, c.ns))
               /\ \A i \in 1..Len(c.yielded), j \in 1..Len(c.yielded) :
                      i < j => StrLess(c.yielded[i][1], c.yielded[j][1])
               /\ Finished(c)
                    => /\ Range(c.yielded) = Pairs(Matching(c.pre, c.ns))
                       /\ Len(c.yielded) = Cardinality(Matching(c.pre, c.ns))

\* an iteration over namespace "a" with limit 1 has finished after yielding
\* its two entries in two batches of one, past an entry of namespace "b"
C6Witness ==
    \E p \in Procs :
        /\ call[p].op = "iterator" /\ Finished(call[p])
        /\ call[p].ns = <<"a">>
        /\ call[p].limit = 1
        /\ Len(call[p].yielded) = 2
        /\ EntriesOf(table, <<"b">>) # {}

(***************************************************************************)
(* C7.  getMany(keys) returns a sequence as long as keys whose i-th        *)
(* element is the stored value of keys[i] when a row with that id exists   *)
(* and not-found otherwise, also when keys repeat; for the empty sequence  *)
(* it returns the empty sequence and sends no statement.                   *)
(***************************************************************************)
C7GetMany ==
    \A p \in Procs :
        LET c == call[p] IN
        (c.op = "getMany" /\ Finished(c))
            => /\ Len(c.res) = Len(c.keys)
               /\ \A i \in 1..Len(c.keys) :
                      IF HasRow(c.pre, c.keys[i])
                      THEN \A r \in RowsOf(c.pre, c.keys[i]) : c.res[i] = r.VALUE
                      ELSE c.res[i] = Undefined
               /\ Len(c.keys) = 0 => (c.res = <<>> /\ c.stmts = <<>>)

\* a getMany has returned the stored empty string for its first key and
\* not-found for its second
C7Witness ==
    \E p \in Procs :
        /\ call[p].op = "getMany" /\ Finished(call[p])
        /\ Len(call[p].keys) = 2
        /\ Row(call[p].keys[1], "") \in call[p].pre
        /\ ~HasRow(call[p].pre, call[p].keys[2])
        /\ call[p].res = <<"", Undefined>>

(***************************************************************************)
(* C8.  hasMany(keys) returns a boolean sequence as long as keys whose     *)
(* i-th element is true exactly when a row with id keys[i] exists; has(k)  *)
(* returns true exactly when a row with id k exists; neither changes the   *)
(* table.                                                                  *)
(***************************************************************************)
C8Has ==
    \A p \in Procs :
        LET c == call[p] IN
        /\ (c.op = "hasMany" /\ Finished(c))
            => /\ Len(c.res) = Len(c.keys)
               /\ \A i \in 1..Len(c.keys) : c.res[i] = HasRow(c.pre, c.keys[i])
               /\ table = c.pre
        /\ (c.op = "has" /\ Finished(c))
            => /\ c.res = HasRow(c.pre, c.key)
               /\ table = c.pre

\* a hasMany has answered false for a missing first key and true for a
\* stored second key
C8Witness ==
    \E p \in Procs :
        /\ call[p].op = "hasMany" /\ Finished(call[p])
        /\ Len(call[p].keys) = 2
        /\ ~HasRow(call[p].pre, call[p].keys[1])
        /\ HasRow(call[p].pre, call[p].keys[2])
        /\ call[p].res = <<FALSE, TRUE>>

(***************************************************************************)
(* C9.  With no concurrent operation, deleteMany(keys) returns true        *)
(* exactly when at least one listed key had a row before the call;         *)
(* afterwards no listed key has a row and every row with an unlisted id is *)
(* unchanged; when no listed key has a row (or keys is empty) it returns   *)
(* false and sends no DELETE.                                              *)
(***************************************************************************)
C9DeleteMany ==
    \A p \in Procs :
        LET c == call[p] IN
        (c.op = "deleteMany" /\ Finished(c))
            => /\ c.res = (\E i \in 1..Len(c.keys) : HasRow(c.pre, c.keys[i]))
               /\ \A i \in 1..Len(c.keys) : ~HasRow(table, c.keys[i])
               /\ {r \in table : r.ID \notin Range(c.keys)}
                    = {r \in c.pre : r.ID \notin Range(c.keys)}
               /\ c.res = FALSE => ("DELETE" \notin Range(c.stmts) /\ table = c.pre)

\* a deleteMany of two stored keys has returned true, removed both rows and
\* kept a row that was not listed
C9Witness ==
    \E p \in Procs :
        /\ call[p].op = "deleteMany" /\ Finished(call[p])
        /\ call[p].res = TRUE
        /\ Len(call[p].keys) = 2
        /\ call[p].keys[1] # call[p].keys[2]
        /\ HasRow(call[p].pre, call[p].keys[1])
        /\ HasRow(call[p].pre, call[p].keys[2])
        /\ table # {}

\* the table after the first n entries have been written over t, one after
\* the other: a key keeps the value of its last entry among them
Written(t, entries, n) ==
    {r \in t : \A j \in 1..n : entries[j].key # r.ID}
    \cup {Row(entries[j].key, entries[j].value) :
            j \in {j \in 1..n : \A m \in (j + 1)..n : entries[m].key # entries[j].key}}

(***************************************************************************)
(* C10.  setMany(entries) writes the entries one UPSERT at a time in input *)
(* order and is not rolled back: when the statement for entry i fails the  *)
(* call fails, the entries before i stay written (a key listed twice among *)
(* them holds the later value) and entry i and the later ones are not      *)
(* written; when no statement fails every entry is written and the last    *)
(* listed value of a repeated key wins.                                    *)
(***************************************************************************)
C10SetMany ==
    \A p \in Procs :
        LET c == call[p] IN
        c.op = "setMany"
            => /\ \A j \in 1..Len(c.stmts) : c.stmts[j] = "UPSERT"
               /\ c.pc = "start"
                    => /\ Len(c.stmts) = (c.i - 1) + (IF c.flight THEN 1 ELSE 0)
                       /\ table = Written(c.pre, c.entries, c.i - 1)
               /\ Finished(c)
                    => /\ Len(c.stmts) = Len(c.entries)
                       /\ table = Written(c.pre, c.entries, Len(c.entries))
               /\ (c.pc = "done" /\ c.err = "Exec")
                    => /\ Len(c.stmts) >= 1
                       /\ table = Written(c.pre, c.entries, Len(c.stmts) - 1)
               /\ (c.pc = "done" /\ c.err \in {"NotReady", "NoConn"})
                    => table = c.pre

\* a setMany has failed on its second statement and the first entry, a new
\* value for its key, is still in the table
C10Witness ==
    \E p \in Procs :
        /\ call[p].op = "setMany"
        /\ call[p].pc = "done" /\ call[p].err = "Exec"
        /\ Len(call[p].stmts) = 2
        /\ Row(call[p].entries[1].key, call[p].entries[1].value) \in table
        /\ Row(call[p].entries[1].key, call[p].entries[1].value) \notin call[p].pre
        /\ call[p].entries[2].key # call[p].entries[1].key
        /\ ~HasRow(table, call[p].entries[2].key)

(***************************************************************************)
(* C11.  When the createTable option is not given, the table is not        *)
(* created automatically: initialisation sends no CREATE TABLE statement   *)
(* and finishes after the connect alone.                                   *)
(* The code tests `this.opts.createTable !== false`, which holds for an    *)
(* option that was not given, so this fails.                               *)
(***************************************************************************)
C11NoCreateByDefault ==
    createTable = "undefined" => (creates = 0 /\ initPc # "create")

(***************************************************************************)
(* C12.  With table creation enabled, a CREATE TABLE refused with code 288 *)
(* is swallowed: initialisation finishes, _ready resolves, emit('error')   *)
(* is not called and later operations pass the gateway.  A refusal with    *)
(* any other code makes initialisation fail and exactly that error is      *)
(* handed to emit('error').  Failures of initialisation show only through  *)
(* emit and _ready: every failed initialisation has called emit once.      *)
(***************************************************************************)
C12CreateFailure ==
    /\ createAnswer = "288"
        => /\ initPc = "done" /\ ready = "resolved"
           /\ emitted = <<>> /\ errorEvents = 0
           /\ \A p \in Procs : call[p].err # "NotReady"
           /\ conn => Gate = "send"
    /\ createAnswer = "error"
        => /\ initPc = "failed"
           /\ emitted = <<"Create">>
           /\ errorEvents <= 1
    /\ initPc = "failed" <=> Len(emitted) = 1
    /\ initPc # "failed" => (emitted = <<>> /\ errorEvents = 0)
    /\ createAnswer # "none" => (createTable # "false" /\ creates = 1)

\* after a CREATE TABLE refused with code 288, a set and then a get of the
\* same key have run and the get has returned the stored value
C12Witness ==
    \E p \in Procs :
        /\ createAnswer = "288"
        /\ call[p].op = "get" /\ Finished(call[p]) /\ call[p].at = "done"
        /\ call[p].res = "v"

(***************************************************************************)
(* C13.  A statement that fails after a successful initialisation is       *)
(* reported to the call that issued it and to nothing else: the handle is  *)
(* kept, the adapter stays ready (no 'error' event, _ready resolved, the   *)
(* session open) and the gateway still hands statements to the session,    *)
(* so that later operations run as C3 to C10 describe.                     *)
(***************************************************************************)
C13StatementFailure ==
    \A p \in Procs :
        LET c == call[p] IN
        (c.at = "done" /\ c.pc = "done" /\ c.err = "Exec")
            => /\ conn /\ ready = "resolved" /\ initPc = "done"
               /\ sess = "connected"
               /\ emitted = <<>> /\ errorEvents = 0
               /\ Gate = "send"
               /\ connects = 1
               /\ \A q \in Procs \ {p} : call[q].err # "Exec"

\* a set invoked on a ready adapter has failed on its statement
C13Witness ==
    \E p \in Procs :
        /\ call[p].op = "set" /\ call[p].at = "done"
        /\ call[p].pc = "done" /\ call[p].err = "Exec"
        /\ call[p].stmts = <<"UPSERT">>

\* the statements of the table operations, as logged by Sent
SqlKinds == {"SELECT", "UPSERT", "COUNT", "DELETE"}

\* the call of the record c has sent a statement of a table operation
HasSentSql(c) == \E j \in 1..Len(c.stmts) : c.stmts[j] \in SqlKinds

(***************************************************************************)
(* C14.  Readiness gate: while initialisation is in flight (connect, then  *)
(* the optional CREATE TABLE) no statement of get, set, delete, clear,     *)
(* has, getMany, setMany, deleteMany, hasMany or iterator has reached the  *)
(* session and the table is untouched; an operation invoked meanwhile has  *)
(* not moved.  The only statement sent before it has finished is the one   *)
(* CREATE TABLE of the initialisation itself.                              *)
(***************************************************************************)
C14ReadinessGate ==
    /\ ready = "pending"
        => /\ initPc \in {"connect", "create"}
           /\ table = {}
           /\ creates = IF initPc = "create" THEN 1 ELSE 0
           /\ \A p \in Procs :
                LET c == call[p] IN
                (c.op \notin {"idle", "disconnect"})
                    => \/ c.pc = "start" /\ c.stmts = <<>> /\ c.yielded = <<>>
                       \/ EmptyList(c) /\ c.pc = "done" /\ c.stmts = <<>>
    /\ \A p \in Procs :
        HasSentSql(call[p]) => (ready # "pending" /\ initPc \in {"done", "failed"})

\* a set invoked while the connect was in flight has sent its statement,
\* after the initialisation has finished
C14Witness ==
    \E p \in Procs :
        /\ call[p].op = "set" /\ call[p].at \in {"connect", "create"}
        /\ call[p].stmts = <<"UPSERT">>
        /\ Finished(call[p])
        /\ initPc = "done"

(***************************************************************************)
(* C15.  No operation, disconnect() included, proceeds while the           *)
(* initialisation is in flight: a disconnect() invoked before the connect  *)
(* or the CREATE TABLE has finished neither closes the session nor clears  *)
(* the handle until the initialisation has completed.                      *)
(* disconnect() does not await _ready and the handle is set by the         *)
(* constructor, so it closes the session at once and this fails.           *)
(***************************************************************************)
C15DisconnectWaits ==
    ready = "pending"
        => /\ conn
           /\ sess # "closed"
           /\ \A p \in Procs : call[p].stmts = <<>>

(***************************************************************************)
(* C16.  The session is opened at most once per adapter: conn.connect is   *)
(* called once, by the constructor, and CREATE TABLE is sent at most once; *)
(* neither a failed initialisation, nor a failed statement, nor            *)
(* disconnect() is followed by another connect or CREATE TABLE.  Once      *)
(* disconnect() has cleared the handle it is never set again: a closed     *)
(* session goes with a cleared handle in every later state, and calls      *)
(* made then fail at the gateway or return without a statement.            *)
(***************************************************************************)
C16SingleSession ==
    /\ connects = 1
    /\ creates <= 1
    /\ initPc \in {"done", "failed"} => creates = (IF createAnswer = "none" THEN 0 ELSE 1)
    /\ sess = "closed" <=> ~conn
    /\ \A p \in Procs :
        LET c == call[p] IN
        (~conn /\ c.op \notin {"idle", "disconnect"} /\ c.at \in {"done", "failed"})
            => (c.stmts = <<>> /\ (c.pc = "done" => c.err # "Exec"))

\* after a failed initialisation and a disconnect() that cleared the
\* handle, a get has failed for want of a connection: nothing was reopened
C16Witness ==
    \E p \in Procs :
        /\ initPc = "failed" /\ ready = "resolved"
        /\ sess = "closed" /\ ~conn
        /\ call[p].op = "get" /\ call[p].pc = "done" /\ call[p].err = "NoConn"
        /\ connects = 1 /\ creates = 1

(***************************************************************************)
(* C17.  For every namespace ns, also one that contains %, _ or \, the     *)
(* LIKE pattern of clear() and of iterator(ns) matches an id exactly when  *)
(* the id begins with the literal text of ns followed by ':'; the two      *)
(* operations build the same pattern.  So a finished clear() has removed   *)
(* exactly the rows whose id begins with "ns:", and a finished iteration   *)
(* has yielded exactly those rows.                                         *)
(***************************************************************************)
C17LikePattern ==
    \A p \in Procs :
        LET c == call[p] IN
        (c.op \in {"clear", "iterator"} /\ c.ns # NoNamespace)
            => /\ ClearPattern(c.ns) = IteratorPattern(c.ns)
               /\ \A r \in c.pre :
                    /\ Like(r.ID, ClearPattern(c.ns)) <=> StartsWith(r.ID, c.ns \o <<":">>)
                    /\ Like(r.ID, IteratorPattern(c.ns)) <=> StartsWith(r.ID, c.ns \o <<":">>)
               /\ (c.op = "clear" /\ Finished(c))
                    => table = c.pre \ EntriesOf(c.pre, c.ns)
               /\ (c.op = "iterator" /\ c.limit >= 1 /\ Finished(c))
                    => {Row(y[1], y[2]) : y \in Range(c.yielded)} = EntriesOf(c.pre, c.ns)

\* clear() under the namespace "%" has removed the entry "%:k" and kept the
\* entries "a:k" and "\:k", which the pattern "%:%" would match
C17Witness ==
    \E p \in Procs :
        /\ call[p].op = "clear" /\ call[p].ns = <<"%">> /\ Finished(call[p])
        /\ Row(<<"%", ":", "k">>, "v") \in call[p].pre
        /\ Row(<<"%", ":", "k">>, "v") \notin table
        /\ Row(<<"a", ":", "k">>, "v") \in table
        /\ Row(<<"\\", ":", "k">>, "v") \in table

(***************************************************************************)
(* C18.  The batch size of the iterator is always a positive integer: a    *)
(* configured iterationLimit of zero or an invalid one (negative, not a    *)
(* number, missing) is replaced by 10, so that no batch query is issued    *)
(* with a limit below 1.                                                   *)
(* parseInt('-1') is -1, which is truthy, so `|| 10` keeps it and the      *)
(* query is issued with LIMIT -1: this fails.                              *)
(***************************************************************************)
C18LimitPositive ==
    \A p \in Procs :
        (call[p].op = "iterator" /\ call[p].stmts # <<>>) => call[p].limit >= 1

(***************************************************************************)
(* C19.  Batching of iterator(ns) with batch limit L >= 1 over a namespace *)
(* of N entries that is not modified meanwhile.  The query for the next    *)
(* batch is issued only when every row of the current batch has been       *)
(* pulled (after y pulled pairs exactly (y-1) div L + 1 queries were       *)
(* answered, and a query is in flight only when the batch before is full   *)
(* and used up) and its cursor is the last id of the batch before; the iteration stops after the first batch with no rows or *)
(* with fewer than L rows, so a finished iteration has sent exactly        *)
(* N div L + 1 queries; an iteration the consumer stopped has sent no      *)
(* query beyond the batch of its last pulled row.                          *)
(***************************************************************************)
C19Batching ==
    \A p \in Procs :
        LET c == call[p]
            L == c.limit
            N == Cardinality(Matching(c.pre, c.ns))
            sent == Len(c.stmts)
            q == sent - (IF c.flight THEN 1 ELSE 0)
            y == Len(c.yielded)
        IN
        (c.op = "iterator" /\ L >= 1)
            => /\ \A j \in 1..sent : c.stmts[j] = "SELECT"
               /\ c.pc = "start" => (q = 0 /\ y = 0)
               /\ c.pc \in {"yielded", "stopped"}
                    => /\ y >= 1
                       /\ q = ((y - 1) \div L) + 1
                       /\ y = (q - 1) * L + (c.i - 1)
                       /\ Len(c.batch) <= L
                       /\ c.flight => (c.i - 1 = Len(c.batch) /\ Len(c.batch) = L)
                       /\ c.lastKey = IF c.flight THEN c.yielded[y][1]
                                      ELSE IF q = 1 THEN <<>>
                                      ELSE c.yielded[(q - 1) * L][1]
               /\ Finished(c) => q = (N \div L) + 1
               /\ (c.pc = "done" /\ c.err = "Exec")
                    => (y % L = 0 /\ q = (y \div L) + 1)
               /\ (c.pc = "done" /\ c.err \in {"NotReady", "NoConn"}) => q = 0

\* an iteration with limit 2 over three entries has finished after two
\* queries: the second batch was short and no third query followed
C19Witness ==
    \E p \in Procs :
        /\ call[p].op = "iterator" /\ Finished(call[p])
        /\ call[p].limit = 2
        /\ Len(call[p].yielded) = 3
        /\ call[p].stmts = <<"SELECT", "SELECT">>

\* the consumer has stopped an iteration with limit 1 after the first of
\* two entries: one query was sent
C19WitnessStopped ==
    \E p \in Procs :
        /\ call[p].op = "iterator" /\ call[p].pc = "stopped"
        /\ call[p].limit = 1
        /\ Cardinality(Matching(call[p].pre, call[p].ns)) = 2
        /\ call[p].stmts = <<"SELECT">>

\* the calls of p and q are two delete(k) of the same key, both invoked
\* while the table held the one row of k
RacingDeletes(p, q) ==
    /\ p # q
    /\ call[p].op = "delete" /\ call[q].op = "delete"
    /\ call[p].key = call[q].key
    /\ Cardinality(RowsOf(call[p].pre, call[p].key)) = 1
    /\ Cardinality(RowsOf(call[q].pre, call[q].key)) = 1

(***************************************************************************)
(* C20.  delete is not atomic.  With one row for key k and two delete(k)   *)
(* calls running concurrently, in every interleaving of their statements   *)
(* at least one call returns true and the row is absent once both have     *)
(* finished; a call that returns false has sent no DELETE.  (That both     *)
(* can return true, their existence checks both running before either      *)
(* DELETE, is the reachable state C20Witness.)                             *)
(***************************************************************************)
C20DeleteRace ==
    \A p \in Procs, q \in Procs :
        (RacingDeletes(p, q) /\ Finished(call[p]) /\ Finished(call[q]))
            => /\ call[p].res = TRUE \/ call[q].res = TRUE
               /\ ~HasRow(table, call[p].key)
               /\ call[p].res = FALSE => call[p].stmts = <<"COUNT">>
               /\ call[p].res = TRUE => call[p].stmts = <<"COUNT", "DELETE">>

\* both of two concurrent delete(k) calls have returned true for the one
\* row of k
C20Witness ==
    \E p \in Procs, q \in Procs :
        /\ RacingDeletes(p, q)
        /\ Finished(call[p]) /\ Finished(call[q])
        /\ call[p].res = TRUE /\ call[q].res = TRUE
        /\ ~HasRow(table, call[p].key)

\* the ids an iteration over namespace ns can ever meet
PossibleIds(ns) ==
    {id \in Ids : ns = NoNamespace \/ StartsWith(id, ns \o <<":">>)}

(***************************************************************************)
(* C21.  While set, delete and clear run beside an iteration, the ids that *)
(* one iterator(ns) call yields are strictly increasing (so none comes     *)
(* twice), every yielded id begins with "ns:", and every yielded pair was  *)
(* a row of the table at the moment its batch was fetched: the current     *)
(* batch is the answer to the batch query on the table of that moment, and *)
(* the pairs yielded from it are its rows in order.  The id set being      *)
(* finite, the iteration is over after finitely many batches: a call has   *)
(* sent at most one query more than it has yielded pairs, and it yields    *)
(* at most one pair per possible id.                                       *)
(***************************************************************************)
C21ConcurrentIteration ==
    \A p \in Procs :
        LET c == call[p]
            y == Len(c.yielded)
            q == Len(c.stmts)
        IN
        (c.op = "iterator" /\ c.limit >= 1)
            => /\ \A i \in 1..y, j \in 1..y :
                    i < j => StrLess(c.yielded[i][1], c.yielded[j][1])
               /\ \A i \in 1..y : c.yielded[i][1] \in PossibleIds(c.ns)
               /\ c.pc \in {"yielded", "stopped"}
                    => /\ ~c.flight
                            => c.batch = SelectBatch(c.snap, IteratorPattern(c.ns),
                                                     c.lastKey, c.limit)
                       /\ Range(c.batch) \subseteq c.snap
                       /\ c.i - 1 <= y
                       /\ \A j \in 1..(c.i - 1) :
                            c.yielded[y - (c.i - 1) + j]
                                = <<c.batch[j].ID, c.batch[j].VALUE>>
               /\ q <= y + 1
               /\ y <= Cardinality(PossibleIds(c.ns))

\* an iteration has finished after yielding two pairs: the second was
\* written after the iteration began, and the row of the first has been
\* deleted since
C21Witness ==
    /\ call[Reader].op = "iterator" /\ Finished(call[Reader])
    /\ Len(call[Reader].yielded) = 2
    /\ ~HasRow(call[Reader].pre, call[Reader].yielded[2][1])
    /\ ~HasRow(table, call[Reader].yielded[1][1])
    /\ HasRow(table, call[Reader].yielded[2][1])

(***************************************************************************)
(* C22.  disconnect() clears the handle only when the close of the driver  *)
(* succeeds.  When the close reports an error, disconnect() fails, and the *)
(* handle and the lifecycle state are as they were: the handle is set, the *)
(* session is not closed, and the gateway still forwards statements to the *)
(* session.  A disconnect() invoked with the handle already cleared        *)
(* succeeds without calling the driver.  In every state the handle is      *)
(* cleared exactly when a close has succeeded.                             *)
(***************************************************************************)
C22Disconnect ==
    /\ ~conn <=> sess = "closed"
    /\ \A p \in Procs :
        LET c == call[p] IN
        c.op = "disconnect"
            => /\ c.pc = "closing" => (conn /\ c.stmts = <<"DISCONNECT">>)
               /\ (c.pc = "done" /\ c.err = "Close")
                    => /\ conn /\ sess # "closed"
                       /\ c.stmts = <<"DISCONNECT">>
                       /\ ready = "resolved" => Gate = "send"
                       /\ ready # "rejected" => Gate # "NoConn"
               /\ Finished(c)
                    => /\ ~conn /\ sess = "closed"
                       /\ c.stmts \in {<<>>, <<"DISCONNECT">>}
               /\ c.pc = "done" => c.err \in {"none", "Close"}
               /\ (c.pc = "done" /\ c.stmts = <<>>) => c.err = "none"

\* a disconnect() on a ready adapter has failed on the close: the handle is
\* set and the gateway forwards
C22Witness ==
    \E p \in Procs :
        /\ call[p].op = "disconnect" /\ call[p].at = "done"
        /\ call[p].pc = "done" /\ call[p].err = "Close"
        /\ conn /\ sess = "connected" /\ Gate = "send"

\* a disconnect() invoked with the handle cleared has succeeded without a
\* call of the driver
C22WitnessRepeated ==
    \E p \in Procs :
        /\ call[p].op = "disconnect" /\ Finished(call[p])
        /\ call[p].stmts = <<>>
        /\ ~conn

=============================================================================
